---- MODULE Spec2Model ----
(***************************************************************************)
(* Model of magic_square.py: the Siamese-method generator                  *)
(* create_magic_square(n) and the input loop of run_magic_square_app.      *)
(* A Python list of lists is a sequence of sequences; Python index i is    *)
(* TLA+ index i + 1.                                                       *)
(***************************************************************************)
EXTENDS Integers, Sequences, FiniteSets

\* Largest size handed to create_magic_square by a direct caller.
MaxN == 11
\* Direct callers also try sizes down to -MaxNeg.
MaxNeg == 4
\* The dialog returns floats; they are drawn in halves from -MaxHalf..MaxHalf.
MaxHalf == 21

Sizes == (0 - MaxNeg)..MaxN

VARIABLES
    caller,        \* "direct": a caller of create_magic_square; "app": run_magic_square_app
    app,           \* position of run_magic_square_app
    user_input,    \* the value get_numeric_input returned last
    drawn,         \* TRUE once draw_magic_square was invoked
    calls,         \* the arguments create_magic_square was invoked with, in order
    gen,           \* position of create_magic_square
    n,             \* its argument
    magic_square,  \* its local grid
    r, c,          \* cursor
    prev_r, prev_c,
    num,
    total_cells,
    result,        \* what the function handed to its caller
    printed,       \* TRUE once the error line was printed
    allocated,     \* TRUE once line 32 ran
    placements     \* the values written by line 44, in order

vars == <<caller, app, user_input, drawn, calls, gen, n, magic_square, r, c,
          prev_r, prev_c, num, total_cells, result, printed, allocated, placements>>

genVars == <<gen, n, magic_square, r, c, prev_r, prev_c, num, total_cells,
             result, printed, allocated, placements>>

appVars == <<app, user_input, drawn>>

\* None as create_magic_square returns it.
None == "None"

\* get_numeric_input returns an int or None: <<v>> or <<>>.
NoInt == <<>>
SomeInt(v) == <<v>>

----------------------------------------------------------------------------
(* Python list operations *)

\* A list index i is accepted for a list of length len iff -len <= i < len.
PyIndexOK(len, i) == (0 - len) <= i /\ i < len

\* The 1-based position a Python index denotes.
PyPos(len, i) == IF i >= 0 THEN i + 1 ELSE len + i + 1

\* [0] * m : m zeros, the empty list when m <= 0.
ZeroRow(m) == [j \in 1..m |-> 0]

\* [[0] * m for _ in range(m)]
NewGrid(m) == [i \in 1..m |-> ZeroRow(m)]

Cell(g, i, j) == g[PyPos(Len(g), i)][PyPos(Len(g[PyPos(Len(g), i)]), j)]

SetCell(g, i, j, v) ==
    LET ri == PyPos(Len(g), i)
        ci == PyPos(Len(g[ri]), j)
    IN  [g EXCEPT ![ri] = [@ EXCEPT ![ci] = v]]

\* magic_square[i][j] raises IndexError unless both subscripts are accepted.
CellOK(g, i, j) ==
    /\ PyIndexOK(Len(g), i)
    /\ PyIndexOK(Len(g[PyPos(Len(g), i)]), j)

----------------------------------------------------------------------------
(* create_magic_square *)

\* Line 27.  Variant: the parity test guarded by m > 0.
IsEvenBug(m) == m % 2 = 0 /\ m > 0
IsEven(m) == m % 2 = 0

\* Line 36.  Variant: the middle column rounded up.
StartColBug(m) == (m + 1) \div 2
StartCol(m) == m \div 2

\* Line 40.  Variant: n + n for n * n.
TotalCellsBug(m) == m + m
TotalCells(m) == m * m

\* Line 42.  Variant: strict comparison.
LoopCondBug(k, total) == k < total
LoopCond(k, total) == k <= total

\* Lines 50-51.  Variant of the row move: clamped at the top row, no wrap.
UpRowBug(i, m) == IF i = 0 THEN 0 ELSE i - 1
UpRow(i, m) == (i - 1) % m
RightCol(j, m) == (j + 1) % m

\* Line 57.  Variant: two rows down.
DownRowBug(i, m) == (i + 2) % m
DownRow(i, m) == (i + 1) % m

\* Line 54.  Variant: the collision test never fires.
OccupiedBug(g, i, j) == FALSE
Occupied(g, i, j) == Cell(g, i, j) # 0

\* Lines 47-58: the cursor after a placement at (i, j) in grid g.
\* Variant: the collision test reads the cell just written.
NextCursorBug(g, i, j, m) ==
    LET ur == UpRow(i, m)
        uc == RightCol(j, m)
    IN  IF Occupied(g, i, j) THEN <<DownRow(i, m), j>> ELSE <<ur, uc>>
NextCursor(g, i, j, m) ==
    LET ur == UpRow(i, m)
        uc == RightCol(j, m)
    IN  IF Occupied(g, ur, uc) THEN <<DownRow(i, m), j>> ELSE <<ur, uc>>

\* The function is entered with argument m.
Enter(m) ==
    /\ gen' = "entry"
    /\ n' = m
    /\ calls' = Append(calls, m)
    /\ magic_square' = <<>>
    /\ r' = 0 /\ c' = 0 /\ prev_r' = 0 /\ prev_c' = 0
    /\ num' = 0 /\ total_cells' = 0
    /\ result' = "unset"
    /\ printed' = FALSE
    /\ allocated' = FALSE
    /\ placements' = <<>>

\* A caller other than the application invokes create_magic_square(m).
Call ==
    /\ caller = "direct"
    /\ gen = "idle"
    /\ \E m \in Sizes : Enter(m)
    /\ UNCHANGED appVars
    /\ UNCHANGED caller

\* Lines 27-29.
Reject ==
    /\ gen = "entry"
    /\ IsEven(n)
    /\ printed' = TRUE
    /\ result' = None
    /\ gen' = "returned"
    /\ UNCHANGED <<caller, app, user_input, drawn, calls, n, magic_square, r, c,
                   prev_r, prev_c, num, total_cells, allocated, placements>>

\* Lines 32-40.
Allocate ==
    /\ gen = "entry"
    /\ ~IsEven(n)
    /\ magic_square' = NewGrid(n)
    /\ allocated' = TRUE
    /\ r' = 0
    /\ c' = StartCol(n)
    /\ num' = 1
    /\ total_cells' = TotalCells(n)
    /\ gen' = "loop"
    /\ UNCHANGED <<caller, app, user_input, drawn, calls, n, prev_r, prev_c,
                   result, printed, placements>>

\* Lines 42-60: one iteration of the while loop.
LoopStep ==
    /\ gen = "loop"
    /\ LoopCond(num, total_cells)
    /\ CellOK(magic_square, r, c)
    /\ LET g == SetCell(magic_square, r, c, num)
           nxt == NextCursor(g, r, c, n)
       IN  /\ magic_square' = g
           /\ r' = nxt[1]
           /\ c' = nxt[2]
    /\ prev_r' = r
    /\ prev_c' = c
    /\ placements' = Append(placements, num)
    /\ num' = num + 1
    /\ UNCHANGED <<caller, app, user_input, drawn, calls, gen, n, total_cells,
                   result, printed, allocated>>

\* Line 44 raises IndexError; the exception leaves the function.
LoopFault ==
    /\ gen = "loop"
    /\ LoopCond(num, total_cells)
    /\ ~CellOK(magic_square, r, c)
    /\ gen' = "fault"
    /\ result' = "IndexError"
    /\ UNCHANGED <<caller, app, user_input, drawn, calls, n, magic_square, r, c,
                   prev_r, prev_c, num, total_cells, printed, allocated, placements>>

\* Line 62.
Return ==
    /\ gen = "loop"
    /\ ~LoopCond(num, total_cells)
    /\ gen' = "returned"
    /\ result' = "grid"
    /\ UNCHANGED <<caller, app, user_input, drawn, calls, n, magic_square, r, c,
                   prev_r, prev_c, num, total_cells, printed, allocated, placements>>

GenNext == Reject \/ Allocate \/ LoopStep \/ LoopFault \/ Return

----------------------------------------------------------------------------

(* run_magic_square_app *)

\* Line 203.  Variant: 1 is accepted too.
valid_sizesBug == {1, 3, 5, 7, 9}
valid_sizes == {3, 5, 7, 9}

\* What the user does with the size dialog: cancel it, type a number (the
\* native numinput hands back a float, here h/2), or, on the textinput
\* fallback, type text that is an integer literal or is not; the turtle
\* window may also be gone, which raises Terminator.
Responses ==
    {<<"cancel", 0>>, <<"junk", 0>>, <<"Terminator", 0>>}
        \cup {<<"float", h>> : h \in (0 - MaxHalf)..MaxHalf}
        \cup {<<"text", i>> : i \in Sizes}

\* int(val) of a float h/2 truncates toward zero.
IntOfFloat(h) == IF h >= 0 THEN h \div 2 ELSE 0 - ((0 - h) \div 2)

\* Lines 175-199: an int, or None.
get_numeric_input(resp) ==
    CASE resp[1] = "cancel" -> NoInt
      [] resp[1] = "float"  -> SomeInt(IntOfFloat(resp[2]))
      [] resp[1] = "text"   -> SomeInt(resp[2])
      [] OTHER              -> NoInt

\* The truth value of `if magic_square:`.
Truthy(res, g) == res = "grid" /\ Len(g) > 0

\* Lines 205-221: one pass of the prompt up to the membership test.
AppPrompt ==
    /\ app = "prompt"
    /\ \E resp \in Responses :
          IF resp[1] = "Terminator"
          THEN app' = "exited" /\ UNCHANGED user_input
          ELSE LET v == get_numeric_input(resp)
               IN  /\ user_input' = v
                   /\ app' = IF v = NoInt THEN "exited"
                             ELSE IF v[1] \in valid_sizes THEN "call"
                             ELSE "invalid"
    /\ UNCHANGED <<caller, drawn, calls>>
    /\ UNCHANGED genVars

\* Line 218: the "Invalid" dialog, then the loop starts over; Terminator
\* from the dialog is caught at line 219 and exits.
AppInvalid ==
    /\ app = "invalid"
    /\ \E closed \in BOOLEAN : app' = IF closed THEN "exited" ELSE "prompt"
    /\ UNCHANGED <<caller, user_input, drawn, calls>>
    /\ UNCHANGED genVars

\* Line 223: the call.
AppCall ==
    /\ app = "call"
    /\ gen = "idle"
    /\ Enter(user_input[1])
    /\ app' = "wait"
    /\ UNCHANGED <<caller, user_input, drawn>>

\* Lines 223-225: the call is over; draw when the result is truthy.
AppResume ==
    /\ app = "wait"
    /\ gen \in {"returned", "fault"}
    /\ drawn' = (gen = "returned" /\ Truthy(result, magic_square))
    /\ app' = IF gen = "fault" THEN "crashed" ELSE "done"
    /\ UNCHANGED <<caller, user_input, calls>>
    /\ UNCHANGED genVars

----------------------------------------------------------------------------

Init ==
    /\ caller \in {"direct", "app"}
    /\ app = IF caller = "app" THEN "prompt" ELSE "off"
    /\ user_input = NoInt
    /\ drawn = FALSE
    /\ calls = <<>>
    /\ gen = "idle"
    /\ n = 0
    /\ magic_square = <<>>
    /\ r = 0 /\ c = 0 /\ prev_r = 0 /\ prev_c = 0
    /\ num = 0 /\ total_cells = 0
    /\ result = "unset"
    /\ printed = FALSE
    /\ allocated = FALSE
    /\ placements = <<>>

Next ==
    \/ Call
    \/ Reject
    \/ Allocate
    \/ LoopStep
    \/ LoopFault
    \/ Return
    \/ AppPrompt
    \/ AppInvalid
    \/ AppCall
    \/ AppResume

Spec == Init /\ [][Next]_vars

\* The interpreter runs a started call to its end: an enabled step of
\* create_magic_square is eventually taken.
FairSpec == Spec /\ WF_vars(GenNext)

----------------------------------------------------------------------------
(* Properties *)

Odd(m) == m % 2 = 1

\* 1-based positions of an m by m grid.
Positions(m) == (1..m) \X (1..m)

\* The positions of g (an m by m grid) that hold v.
Holding(g, m, v) == {p \in Positions(m) : g[p[1]][p[2]] = v}

IsSquare(g, m) == Len(g) = m /\ \A i \in 1..m : Len(g[i]) = m

RECURSIVE SumTo(_, _)
\* f[1] + ... + f[k]
SumTo(f, k) == IF k = 0 THEN 0 ELSE f[k] + SumTo(f, k - 1)

RowSum(g, m, i) == SumTo(g[i], m)
ColSum(g, m, j) == SumTo([i \in 1..m |-> g[i][j]], m)
DiagSum(g, m) == SumTo([i \in 1..m |-> g[i][i]], m)
AntiDiagSum(g, m) == SumTo([i \in 1..m |-> g[i][m + 1 - i]], m)

\* The call ended by handing a grid back.
ReturnedGrid == gen = "returned" /\ result = "grid"

\* C1: for odd n >= 1 the returned value is an n by n grid in which each of
\* 1..n*n occurs exactly once and no cell holds 0.
C1_EachValueOnce ==
    (gen = "returned" /\ n >= 1 /\ Odd(n)) =>
        /\ result = "grid"
        /\ IsSquare(magic_square, n)
        /\ \A v \in 1..(n * n) : Cardinality(Holding(magic_square, n, v)) = 1
        /\ Holding(magic_square, n, 0) = {}

C1_Witness ==
    /\ ReturnedGrid
    /\ n = 11
    /\ Cardinality(Holding(magic_square, 11, 121)) = 1

\* C2: for odd n >= 3 every row, every column and both diagonals of the
\* returned grid sum to n*(n*n+1)/2.
C2_MagicSums ==
    (gen = "returned" /\ n >= 3 /\ Odd(n)) =>
        LET magic == (n * (n * n + 1)) \div 2
        IN  /\ result = "grid"
            /\ \A i \in 1..n : RowSum(magic_square, n, i) = magic
            /\ \A j \in 1..n : ColSum(magic_square, n, j) = magic
            /\ DiagSum(magic_square, n) = magic
            /\ AntiDiagSum(magic_square, n) = magic

C2_Witness ==
    /\ ReturnedGrid
    /\ n = 7
    /\ DiagSum(magic_square, 7) = 175
    /\ ColSum(magic_square, 7, 1) = 175

\* C3: an even n is rejected before construction begins: the call returns
\* None with the error printed, no grid was allocated, no value was placed.
C3_EvenRejected ==
    (gen # "idle" /\ n % 2 = 0) =>
        /\ gen \in {"entry", "returned"}
        /\ ~allocated
        /\ magic_square = <<>>
        /\ placements = <<>>
        /\ gen = "returned" => (result = None /\ printed)

C3_Witness ==
    /\ gen = "returned"
    /\ n = 4
    /\ result = None
    /\ ~allocated

\* C4: for n <= 0 a finished call has handed None (InvalidSize) to its
\* caller: it did not end in an exception and did not return a grid.
C4_NonPositiveRejected ==
    (gen \in {"returned", "fault"} /\ n <= 0) =>
        (gen = "returned" /\ result = None)

\* C5: create_magic_square(3) returns rows (8,1,6), (3,5,7), (4,9,2), and 1
\* sits at row 0, column 3 div 2.
C5_OrderThree ==
    (gen = "returned" /\ n = 3) =>
        /\ result = "grid"
        /\ magic_square = <<<<8, 1, 6>>, <<3, 5, 7>>, <<4, 9, 2>>>>
        /\ Holding(magic_square, 3, 1) = {<<1, 2>>}

C5_Witness ==
    /\ ReturnedGrid
    /\ n = 3
    /\ magic_square[3] = <<4, 9, 2>>

\* C6: create_magic_square(1) makes one placement, after which the cursor is
\* again on the filled cell, and returns the 1 by 1 grid holding 1.
C6_OrderOne ==
    /\ (gen = "loop" /\ n = 1 /\ placements # <<>>) =>
          /\ placements = <<1>>
          /\ r = 0 /\ c = 0
          /\ magic_square = <<<<1>>>>
    /\ (gen = "returned" /\ n = 1) =>
          /\ result = "grid"
          /\ placements = <<1>>
          /\ magic_square = <<<<1>>>>

C6_Witness ==
    /\ ReturnedGrid
    /\ n = 1
    /\ magic_square = <<<<1>>>>
    /\ r = 0 /\ c = 0 /\ prev_r = 0 /\ prev_c = 0

\* C7: for odd n >= 1 the loop places 1, 2, ... in increasing order, never
\* more than n*n values, and the call ends having made exactly n*n placements.
C7_Terminates ==
    /\ [](((gen \in {"loop", "returned"}) /\ n >= 1 /\ Odd(n)) =>
            /\ Len(placements) = num - 1
            /\ Len(placements) <= n * n
            /\ \A k \in 1..Len(placements) : placements[k] = k)
    /\ ((gen = "entry" /\ n >= 1 /\ Odd(n))
            ~> (gen = "returned" /\ Len(placements) = n * n))

C7_Witness ==
    /\ ReturnedGrid
    /\ n = 9
    /\ Len(placements) = 81
    /\ placements[81] = 81

\* C8: for odd n >= 1, after k placements the grid holds each of 1..k in
\* exactly one cell and 0 in the other n*n - k cells, the cursor is inside the
\* grid, the cell under the cursor is empty while values remain, and each
\* placement writes the next value into a cell that held 0.
C8_GridInv ==
    (gen \in {"loop", "returned"} /\ n >= 1 /\ Odd(n)) =>
        LET k == Len(placements)
        IN  /\ IsSquare(magic_square, n)
            /\ r \in 0..(n - 1)
            /\ c \in 0..(n - 1)
            /\ \A v \in 1..k : Cardinality(Holding(magic_square, n, v)) = 1
            /\ Cardinality(Holding(magic_square, n, 0)) = n * n - k
            /\ k < n * n => magic_square[r + 1][c + 1] = 0

C8_WriteEmpty ==
    (gen = "loop" /\ n >= 1 /\ Odd(n) /\ placements' # placements) =>
        /\ magic_square[r + 1][c + 1] = 0
        /\ magic_square'[r + 1][c + 1] = Len(placements) + 1
        /\ \A p \in Positions(n) :
              p # <<r + 1, c + 1>> => magic_square'[p[1]][p[2]] = magic_square[p[1]][p[2]]

C8_NoOverwrite == [](C8_GridInv) /\ [][C8_WriteEmpty]_vars

\* A placement made through the drop-down branch.
C8_Witness ==
    /\ gen = "loop"
    /\ n = 5
    /\ Len(placements) = 5
    /\ <<r, c>> = <<(prev_r + 1) % 5, prev_c>>
    /\ magic_square[prev_r + 1][prev_c + 1] = 5
    /\ magic_square[r + 1][c + 1] = 0

\* The 0-based cell that holds v.
CellOf(g, m, v) ==
    LET p == CHOOSE q \in Positions(m) : g[q[1]][q[2]] = v
    IN  <<p[1] - 1, p[2] - 1>>

\* C9: for odd n >= 1 and every k whose successor is placed, k+1 sits one row
\* up and one column right of k (wrapped) when that cell was empty when k had
\* just been placed, and otherwise one row below k (wrapped) in k's column; the
\* cursor after the last placement is chosen the same way.
C9_SiameseStep ==
    (gen \in {"loop", "returned"} /\ n >= 1 /\ Odd(n)) =>
        LET g == magic_square
            last == Len(placements)
            DiagOf(p) == <<(p[1] - 1) % n, (p[2] + 1) % n>>
            BelowOf(p) == <<(p[1] + 1) % n, p[2]>>
            At(p) == g[p[1] + 1][p[2] + 1]
        IN  /\ \A k \in 1..(last - 1) :
                  LET p == CellOf(g, n, k)
                      wasEmpty == At(DiagOf(p)) = 0 \/ At(DiagOf(p)) > k
                  IN  CellOf(g, n, k + 1) = IF wasEmpty THEN DiagOf(p) ELSE BelowOf(p)
            /\ last >= 1 =>
                  LET p == CellOf(g, n, last)
                  IN  /\ p = <<prev_r, prev_c>>
                      /\ <<r, c>> = IF At(DiagOf(p)) = 0 THEN DiagOf(p) ELSE BelowOf(p)

\* Both branches were taken: 3 -> 4 dropped down, 4 -> 5 went up-right.
C9_Witness ==
    /\ ReturnedGrid
    /\ n = 3
    /\ CellOf(magic_square, 3, 3) = <<1, 0>>
    /\ CellOf(magic_square, 3, 4) = <<2, 0>>
    /\ CellOf(magic_square, 3, 5) = <<1, 1>>

\* C10: run_magic_square_app invokes create_magic_square at most once and only
\* with 3, 5, 7 or 9; while prompting, after an invalid size and after an exit
\* nothing was constructed or drawn, and the invalid-size dialog is only
\* reached with an integer outside {3, 5, 7, 9}.
C10_AppCalls ==
    caller = "app" =>
        /\ Len(calls) <= 1
        /\ \A i \in 1..Len(calls) : calls[i] \in {3, 5, 7, 9}
        /\ app \in {"prompt", "invalid", "exited", "call"} =>
              (calls = <<>> /\ gen = "idle" /\ ~allocated /\ ~drawn)
        /\ app = "invalid" => (user_input # NoInt /\ user_input[1] \notin {3, 5, 7, 9})
        /\ drawn => calls \in {<<3>>, <<5>>, <<7>>, <<9>>}

C10_Witness ==
    /\ caller = "app"
    /\ app = "done"
    /\ calls = <<7>>
    /\ drawn

====
